---- MODULE Spec2Model ----
(***************************************************************************)
(* Model of obsidian-headless (src/main.py): the file endpoints of the     *)
(* vault server (read, create, replace, patch, trash, delete), the path    *)
(* sandbox _resolve_safe, and the patch pipeline of patch_file.            *)
(*                                                                         *)
(* Text is modelled character by character: a Python str is a sequence of  *)
(* one-character strings, so escaping, line splitting and diff parsing are *)
(* computed the way the code computes them.                                *)
(***************************************************************************)
EXTENDS Integers, Sequences, FiniteSets, TLC

\* ------------------------------------------------------------------------
\* Characters and str helpers (Python str methods used by src/main.py)
\* ------------------------------------------------------------------------
NL == "\n"
BS == "\\"
SP == " "

\* s[i:] for a 1-based start index i (Python slice to the end).
From(s, i) == IF i > Len(s) THEN <<>> ELSE SubSeq(s, i, Len(s))

\* s[:k], the first k characters.
Take(s, k) == IF k <= 0 THEN <<>> ELSE SubSeq(s, 1, IF k < Len(s) THEN k ELSE Len(s))

\* str.startswith(p)
StartsWith(s, p) == Len(p) <= Len(s) /\ SubSeq(s, 1, Len(p)) = p

\* `sub in s`
Contains(s, sub) == \E i \in 1..(Len(s) - Len(sub) + 1) : SubSeq(s, i, i + Len(sub) - 1) = sub

\* str.replace(pat, rep): left to right, non-overlapping occurrences.
RECURSIVE Replace(_, _, _)
Replace(s, pat, rep) ==
    IF s = <<>> THEN <<>>
    ELSE IF StartsWith(s, pat) THEN rep \o Replace(From(s, Len(pat) + 1), pat, rep)
    ELSE <<s[1]>> \o Replace(Tail(s), pat, rep)

\* Position of the first NL in s, 0 when there is none.
RECURSIVE FirstNL(_, _)
FirstNL(s, i) ==
    IF i > Len(s) THEN 0 ELSE IF s[i] = NL THEN i ELSE FirstNL(s, i + 1)

\* str.splitlines(keepends=True): every line keeps its terminator.
RECURSIVE SplitLinesKeep(_)
SplitLinesKeep(s) ==
    IF s = <<>> THEN <<>>
    ELSE LET k == FirstNL(s, 1) IN
         IF k = 0 THEN <<s>>
         ELSE <<SubSeq(s, 1, k)>> \o SplitLinesKeep(From(s, k + 1))

\* str.splitlines(): the lines without their terminators.
RECURSIVE SplitLines(_)
SplitLines(s) ==
    IF s = <<>> THEN <<>>
    ELSE LET k == FirstNL(s, 1) IN
         IF k = 0 THEN <<s>>
         ELSE <<SubSeq(s, 1, k - 1)>> \o SplitLines(From(s, k + 1))

\* sep.join(parts)
RECURSIVE Join(_, _)
Join(parts, sep) ==
    IF parts = <<>> THEN <<>>
    ELSE IF Len(parts) = 1 THEN parts[1]
    ELSE parts[1] \o sep \o Join(Tail(parts), sep)

IsSpace(c) == c \in {SP, NL}

RECURSIVE LStrip(_)
LStrip(s) == IF s # <<>> /\ IsSpace(s[1]) THEN LStrip(Tail(s)) ELSE s

RECURSIVE RStrip(_)
RStrip(s) == IF s # <<>> /\ IsSpace(s[Len(s)]) THEN RStrip(SubSeq(s, 1, Len(s) - 1)) ELSE s

\* str.strip()
Strip(s) == RStrip(LStrip(s))

\* str.split(sep) for a one-character separator.
RECURSIVE SplitOn(_, _)
SplitOn(s, c) ==
    IF \A i \in 1..Len(s) : s[i] # c THEN <<s>>
    ELSE LET k == CHOOSE i \in 1..Len(s) : s[i] = c /\ \A j \in 1..(i - 1) : s[j] # c
         IN <<SubSeq(s, 1, k - 1)>> \o SplitOn(From(s, k + 1), c)

Last(q) == q[Len(q)]

\* ------------------------------------------------------------------------
\* Decimal numbers in diff range headers
\* ------------------------------------------------------------------------
Digits == <<"0", "1", "2", "3", "4", "5", "6", "7", "8", "9">>

IsDigit(c) == \E d \in 1..10 : Digits[d] = c

DigitVal(c) == (CHOOSE d \in 1..10 : Digits[d] = c) - 1

\* int(s) for a string of decimal digits.
RECURSIVE ParseInt(_)
ParseInt(s) ==
    IF s = <<>> THEN 0 ELSE 10 * ParseInt(SubSeq(s, 1, Len(s) - 1)) + DigitVal(s[Len(s)])

\* str(n) for n >= 0.
RECURSIVE FormatInt(_)
FormatInt(n) ==
    IF n < 10 THEN <<Digits[n + 1]>> ELSE FormatInt(n \div 10) \o <<Digits[(n % 10) + 1]>>

\* First index >= i of s that holds no digit (the end of the digit run \d* at i).
RECURSIVE DigitsEnd(_, _)
DigitsEnd(s, i) ==
    IF i <= Len(s) /\ IsDigit(s[i]) THEN DigitsEnd(s, i + 1) ELSE i

\* ------------------------------------------------------------------------
\* whatthepatch, as called by patch_file: parse_patch and apply_diff
\* ------------------------------------------------------------------------
\* Python's None, for the line numbers of a change (which are never negative).
None == -1

\* ,? after a digit run that ends before index e: the index after the comma.
SkipComma(line, e) == IF e <= Len(line) /\ line[e] = "," THEN e + 1 ELSE e

\* The end of (\d+),?(\d*) at index i.
RangeEnd(line, i) == DigitsEnd(line, SkipComma(line, DigitsEnd(line, i)))

\* The groups of unified_hunk_start, given where its digit runs end: the first
\* run at e1, the old range at e2, the third run at e3, the new range at e4.
HunkGroups(line, e1, e2, e3, e4) ==
    IF /\ StartsWith(line, <<"@", "@", SP, "-">>)
       /\ e1 > 5
       /\ StartsWith(From(line, e2), <<SP, "+">>)
       /\ e3 > e2 + 2
       /\ StartsWith(From(line, e4), <<SP, "@", "@">>)
    THEN [ok |-> TRUE,
          old |-> ParseInt(SubSeq(line, 5, e1 - 1)),
          old_len |-> ParseInt(SubSeq(line, SkipComma(line, e1), e2 - 1)),
          new |-> ParseInt(SubSeq(line, e2 + 2, e3 - 1)),
          new_len |-> ParseInt(SubSeq(line, SkipComma(line, e3), e4 - 1))]
    ELSE [ok |-> FALSE, old |-> 0, old_len |-> 0, new |-> 0, new_len |-> 0]

\* unified_hunk_start: ^@@ -(\d+),?(\d*) \+(\d+),?(\d*) @@(.*)$
\* A missing length group is read as 0, as parse_unified_diff does.
HunkStart(line) ==
    HunkGroups(line, DigitsEnd(line, 5), RangeEnd(line, 5),
               DigitsEnd(line, RangeEnd(line, 5) + 2), RangeEnd(line, RangeEnd(line, 5) + 2))

\* unified_change: ^([-+ ])(.*)$
IsChange(line) == line # <<>> /\ line[1] \in {"-", "+", SP}

\* One line of a diff, folded into the parser state of parse_unified_diff:
\* old, new, old_len, new_len persist across hunks; r and i restart per hunk.
ParseStep(st, line) ==
    LET h == HunkStart(line) IN
    IF h.ok THEN
        [st EXCEPT !.old = h.old, !.old_len = h.old_len, !.new = h.new,
                   !.new_len = h.new_len, !.r = 0, !.i = 0, !.inhunk = TRUE]
    ELSE IF ~st.inhunk \/ ~IsChange(line) THEN st
    ELSE LET kind == line[1]
             text == Tail(line)
         IN  IF kind = "-" THEN
                 IF st.r # st.old_len \/ st.r = 0
                 THEN [st EXCEPT !.changes = Append(@, [old |-> st.old + st.r, new |-> None, line |-> text]),
                                 !.r = @ + 1]
                 ELSE st
             ELSE IF kind = "+" THEN
                 IF st.i # st.new_len \/ st.i = 0
                 THEN [st EXCEPT !.changes = Append(@, [old |-> None, new |-> st.new + st.i, line |-> text]),
                                 !.i = @ + 1]
                 ELSE st
             ELSE
                 [st EXCEPT !.changes = IF st.r # st.old_len /\ st.i # st.new_len
                                        THEN Append(@, [old |-> st.old + st.r, new |-> st.new + st.i, line |-> text])
                                        ELSE @,
                            !.r = @ + 1, !.i = @ + 1]

RECURSIVE ParseFold(_, _)
ParseFold(st, lines) ==
    IF lines = <<>> THEN st ELSE ParseFold(ParseStep(st, Head(lines)), Tail(lines))

\* parse_unified_diff(lines): the list of changes (<<>> stands for its None:
\* it returns None when it found no change).
ParseUnifiedDiff(lines) ==
    ParseFold([old |-> 0, new |-> 0, old_len |-> 0, new_len |-> 0, r |-> 0, i |-> 0,
               inhunk |-> FALSE, changes |-> <<>>], lines).changes

\* The groups of default_hunk_start, given where its digit runs end; an end
\* line number is turned into a length, a missing one is read as length 0.
DefaultHunkGroups(line, e1, e2, e3, e4) ==
    IF /\ e1 > 1
       /\ e2 <= Len(line) /\ line[e2] \in {"a", "c", "d"}
       /\ e3 > e2 + 1
       /\ e4 = Len(line) + 1
    THEN [ok |-> TRUE,
          old |-> ParseInt(SubSeq(line, 1, e1 - 1)),
          old_len |-> IF e2 > SkipComma(line, e1)
                      THEN ParseInt(SubSeq(line, SkipComma(line, e1), e2 - 1))
                           - ParseInt(SubSeq(line, 1, e1 - 1)) + 1
                      ELSE 0,
          new |-> ParseInt(SubSeq(line, e2 + 1, e3 - 1)),
          new_len |-> IF e4 > SkipComma(line, e3)
                      THEN ParseInt(SubSeq(line, SkipComma(line, e3), e4 - 1))
                           - ParseInt(SubSeq(line, e2 + 1, e3 - 1)) + 1
                      ELSE 0]
    ELSE [ok |-> FALSE, old |-> 0, old_len |-> 0, new |-> 0, new_len |-> 0]

\* default_hunk_start: ^(\d+),?(\d*)([acd])(\d+),?(\d*)$
\* The hunk header of a normal diff ("1d0", "2,3c2").
DefaultHunkStart(line) ==
    DefaultHunkGroups(line, DigitsEnd(line, 1), RangeEnd(line, 1),
                      DigitsEnd(line, RangeEnd(line, 1) + 1), RangeEnd(line, RangeEnd(line, 1) + 1))

\* default_change: ^([><]) (.*)$
IsDefaultChange(line) == Len(line) >= 2 /\ line[1] \in {"<", ">"} /\ line[2] = SP

\* One line of a diff, folded into the parser state of parse_default_diff.
ParseDefaultStep(st, line) ==
    LET h == DefaultHunkStart(line) IN
    IF h.ok THEN
        [st EXCEPT !.old = h.old, !.old_len = h.old_len, !.new = h.new,
                   !.new_len = h.new_len, !.r = 0, !.i = 0]
    ELSE IF ~IsDefaultChange(line) THEN st
    ELSE LET text == From(line, 3) IN
         IF line[1] = "<" THEN
             IF st.r # st.old_len \/ st.r = 0
             THEN [st EXCEPT !.changes = Append(@, [old |-> st.old + st.r, new |-> None, line |-> text]),
                             !.r = @ + 1]
             ELSE st
         ELSE
             IF st.i # st.new_len \/ st.i = 0
             THEN [st EXCEPT !.changes = Append(@, [old |-> None, new |-> st.new + st.i, line |-> text]),
                             !.i = @ + 1]
             ELSE st

RECURSIVE ParseDefaultFold(_, _)
ParseDefaultFold(st, lines) ==
    IF lines = <<>> THEN st ELSE ParseDefaultFold(ParseDefaultStep(st, Head(lines)), Tail(lines))

\* parse_default_diff(lines): the changes of a normal diff (<<>> stands for None).
ParseDefaultDiff(lines) ==
    ParseDefaultFold([old |-> 0, new |-> 0, old_len |-> 0, new_len |-> 0, r |-> 0, i |-> 0,
                      changes |-> <<>>], lines).changes

\* parse_diff(lines): the parser of the first format whose hunk marker occurs
\* in the lines, unified before normal. (The markers of context, ed and rcs
\* diffs occur in no payload of this model.)
ParseDiff(lines) ==
    IF \E k \in 1..Len(lines) : HunkStart(lines[k]).ok THEN ParseUnifiedDiff(lines)
    ELSE IF \E k \in 1..Len(lines) : DefaultHunkStart(lines[k]).ok THEN ParseDefaultDiff(lines)
    ELSE <<>>

\* unified_header_old_line / git_header_old_line: ^--- (.+)$
IsOldHeader(line) == StartsWith(line, <<"-", "-", "-", SP>>) /\ Len(line) > 4

\* unified_header_new_line / git_header_new_line: ^\+\+\+ (.+)$
IsNewHeader(line) == StartsWith(line, <<"+", "+", "+", SP>>) /\ Len(line) > 4

\* parse_header(diff) is not None: the chunk names an old and a new file.
HasHeader(lines) ==
    /\ \E k \in 1..Len(lines) : IsOldHeader(lines[k])
    /\ \E k \in 1..Len(lines) : IsNewHeader(lines[k])

\* split_by_regex(lines, unified_header_old_line): the lines before the first
\* old-file header, then one chunk per header.
RECURSIVE SplitByHeader(_, _)
SplitByHeader(lines, cur) ==
    IF lines = <<>> THEN <<cur>>
    ELSE IF IsOldHeader(Head(lines)) THEN <<cur>> \o SplitByHeader(Tail(lines), <<Head(lines)>>)
    ELSE SplitByHeader(Tail(lines), Append(cur, Head(lines)))

\* next(whatthepatch.parse_patch(diff_text), None): the first chunk that has a
\* header or changes. found = FALSE is Python's None.
RECURSIVE FirstPatch(_)
FirstPatch(chunks) ==
    IF chunks = <<>> THEN [found |-> FALSE, changes |-> <<>>]
    ELSE LET d == ParseDiff(Head(chunks)) IN
         IF HasHeader(Head(chunks)) \/ d # <<>>
         THEN [found |-> TRUE, changes |-> d]
         ELSE FirstPatch(Tail(chunks))

ParsePatch(diff_text) == FirstPatch(SplitByHeader(SplitLines(diff_text), <<>>))

\* Python list indexing: a negative index counts from the end.
PyIndex(lines, k) == IF k < 0 THEN k + Len(lines) ELSE k

PyInRange(lines, k) == PyIndex(lines, k) >= 0 /\ PyIndex(lines, k) < Len(lines)

\* del lines[k]
PyDel(lines, k) ==
    LET j == PyIndex(lines, k) + 1 IN SubSeq(lines, 1, j - 1) \o From(lines, j + 1)

\* lines.insert(k, x): the index is clamped to the list.
PyInsert(lines, k, x) ==
    LET j0 == IF k < 0 THEN k + Len(lines) ELSE k
        j == IF j0 < 0 THEN 0 ELSE IF j0 > Len(lines) THEN Len(lines) ELSE j0
    IN  SubSeq(lines, 1, j) \o <<x>> \o From(lines, j + 1)

\* The first loop of apply_diff: every change that has an old line number must
\* name an existing line of the source that equals the change's text.
ContextMatches(changes, lines) ==
    \A k \in 1..Len(changes) :
        changes[k].old # None =>
            /\ changes[k].old <= Len(lines)
            /\ PyInRange(lines, changes[k].old - 1)
            /\ lines[PyIndex(lines, changes[k].old - 1) + 1] = changes[k].line

\* The second loop of apply_diff: deletions and insertions in order, r and i
\* counting the lines removed and inserted so far. ok = FALSE is an IndexError.
RECURSIVE ApplyChanges(_, _, _, _)
ApplyChanges(changes, lines, r, i) ==
    IF changes = <<>> THEN [ok |-> TRUE, lines |-> lines]
    ELSE LET c == Head(changes) IN
         IF c.old # None /\ c.new = None THEN
             IF PyInRange(lines, c.old - 1 - r + i)
             THEN ApplyChanges(Tail(changes), PyDel(lines, c.old - 1 - r + i), r + 1, i)
             ELSE [ok |-> FALSE, lines |-> lines]
         ELSE IF c.old = None /\ c.new # None THEN
             ApplyChanges(Tail(changes), PyInsert(lines, c.new - 1, c.line), r, i + 1)
         ELSE ApplyChanges(Tail(changes), lines, r, i)

\* whatthepatch.apply_diff(patch, text): the patched lines, or a raised exception.
ApplyDiff(changes, text) ==
    LET lines == SplitLines(text) IN
    IF ~ContextMatches(changes, lines) THEN [ok |-> FALSE, lines |-> lines]
    ELSE ApplyChanges(changes, lines, 0, 0)

\* ------------------------------------------------------------------------
\* patch_file: from the payload to the new text
\* ------------------------------------------------------------------------
S_other_md == <<"o", "t", "h", "e", "r", ".", "m", "d">>
S_different_md == <<"d", "i", "f", "f", "e", "r", "e", "n", "t", ".", "m", "d">>
S_b_slash == <<"b", "/">>
S_a_slash == <<"a", "/">>
S_old_prefix == <<"-", "-", "-", SP>>
S_new_prefix == <<"+", "+", "+", SP>>
S_at_at == <<"@", "@">>

\* The payload taken as it is, without the handling of escaped newlines.
UnescapeMissing(diff_text) == diff_text

\* "Handle JSON-escaped newlines": every backslash+n becomes a real newline.
Unescape(diff_text) ==
    IF Contains(diff_text, <<BS, "n">>) THEN Replace(diff_text, <<BS, "n">>, <<NL>>)
    ELSE diff_text

\* The first validation loop: a '--- ' or '+++ ' line before the first '@@' line.
RECURSIVE ScanHeaders(_)
ScanHeaders(diff_lines) ==
    IF diff_lines = <<>> THEN FALSE
    ELSE IF StartsWith(Head(diff_lines), S_old_prefix) \/ StartsWith(Head(diff_lines), S_new_prefix)
         THEN TRUE
    ELSE IF StartsWith(Head(diff_lines), S_at_at) THEN FALSE
    ELSE ScanHeaders(Tail(diff_lines))

AnyHunkLine(diff_lines) ==
    \E k \in 1..Len(diff_lines) : StartsWith(diff_lines[k], S_at_at)

\* target_file: the text of the first '+++ ' line, stripped; <<>> is None.
RECURSIVE TargetFile(_)
TargetFile(diff_lines) ==
    IF diff_lines = <<>> THEN <<>>
    ELSE IF StartsWith(Head(diff_lines), S_new_prefix) THEN Strip(From(Head(diff_lines), 5))
    ELSE TargetFile(Tail(diff_lines))

\* "Check if the diff targets a different file"
TargetsOtherFile(file_path, diff_lines) ==
    LET target_file == TargetFile(diff_lines) IN
    /\ target_file # <<>>
    /\ target_file # S_b_slash \o file_path
    /\ target_file # S_b_slash \o Last(SplitOn(file_path, "/"))
    /\ (Contains(target_file, S_other_md) \/ Contains(target_file, S_different_md))

\* The patched lines joined, without the newline after the last one.
JoinPatchedNoFinalLF(lines) == Join(lines, <<NL>>)

\* new_text = "\n".join(list(patched_text_generator)) + "\n"
JoinPatched(lines) == Join(lines, <<NL>>) \o <<NL>>

\* The try block of patch_file: the status and detail it raises, or the new
\* text. The payload is the diff as received (not empty).
ApplyPatchText(file_path, original_text, payload_diff) ==
    LET diff_text == Unescape(payload_diff)
        diff_lines == SplitLinesKeep(diff_text)
        has_headers == ScanHeaders(diff_lines)
        patch == ParsePatch(diff_text)
        applied == ApplyDiff(patch.changes, original_text)
        err(d) == [status |-> 400, detail |-> d, new_text |-> <<>>]
    IN  IF ~has_headers /\ AnyHunkLine(diff_lines) THEN err("Invalid diff format: missing headers")
        ELSE IF TargetsOtherFile(file_path, diff_lines) THEN err("Diff targets different file")
        ELSE IF ~has_headers THEN err("Invalid diff format: missing headers")
        ELSE IF ~patch.found \/ patch.changes = <<>> \/ ~applied.ok THEN err("Failed to apply patch")
        ELSE [status |-> 200, detail |-> "patched", new_text |-> JoinPatched(applied.lines)]

\* hashlib.sha256(text.encode("utf-8")).hexdigest(). The digest is not computed:
\* it is a tagged copy of the bytes, so equal digests mean equal content.
Sha256(text) == <<"sha256">> \o text

\* ------------------------------------------------------------------------
\* The client's diff: difflib.unified_diff as the tests' make_unified_diff
\* calls it (lines with their terminators, default context of 3 lines)
\* ------------------------------------------------------------------------
ContextN == 3

Max2(p, q) == IF p > q THEN p ELSE q
Min2(p, q) == IF p < q THEN p ELSE q

\* a[i:j] with Python's 0-based, half-open indices.
PySlice(a, i, j) == IF j <= i THEN <<>> ELSE SubSeq(a, i + 1, j)

\* SequenceMatcher.find_longest_match without junk: the longest block with
\* a[i:i+k] = b[j:j+k], the earliest in a, then the earliest in b; k = 0 if none.
LongestMatch(a, alo, ahi, b, blo, bhi) ==
    LET cands == {m \in [i : alo..(ahi - 1), j : blo..(bhi - 1), k : 1..Min2(ahi - alo, bhi - blo)] :
                    /\ m.i + m.k <= ahi
                    /\ m.j + m.k <= bhi
                    /\ PySlice(a, m.i, m.i + m.k) = PySlice(b, m.j, m.j + m.k)}
    IN  IF cands = {} THEN [i |-> alo, j |-> blo, k |-> 0]
        ELSE CHOOSE m \in cands : \A o \in cands :
                \/ m.k > o.k
                \/ m.k = o.k /\ m.i < o.i
                \/ m.k = o.k /\ m.i = o.i /\ m.j <= o.j

\* SequenceMatcher.get_matching_blocks, without its final sentinel.
RECURSIVE MatchingBlocks(_, _, _, _, _, _)
MatchingBlocks(a, alo, ahi, b, blo, bhi) ==
    LET m == LongestMatch(a, alo, ahi, b, blo, bhi) IN
    IF m.k = 0 THEN <<>>
    ELSE MatchingBlocks(a, alo, m.i, b, blo, m.j)
         \o <<m>>
         \o MatchingBlocks(a, m.i + m.k, ahi, b, m.j + m.k, bhi)

Opcode(tag, i1, i2, j1, j2) == [tag |-> tag, i1 |-> i1, i2 |-> i2, j1 |-> j1, j2 |-> j2]

\* SequenceMatcher.get_opcodes: blocks ends with the sentinel (len(a), len(b), 0).
RECURSIVE OpcodesFrom(_, _, _)
OpcodesFrom(blocks, i, j) ==
    IF blocks = <<>> THEN <<>>
    ELSE LET m == Head(blocks)
             gap == IF i < m.i /\ j < m.j THEN <<Opcode("replace", i, m.i, j, m.j)>>
                    ELSE IF i < m.i THEN <<Opcode("delete", i, m.i, j, m.j)>>
                    ELSE IF j < m.j THEN <<Opcode("insert", i, m.i, j, m.j)>>
                    ELSE <<>>
             eq == IF m.k > 0 THEN <<Opcode("equal", m.i, m.i + m.k, m.j, m.j + m.k)>> ELSE <<>>
         IN  gap \o eq \o OpcodesFrom(Tail(blocks), m.i + m.k, m.j + m.k)

GetOpcodes(a, b) ==
    OpcodesFrom(MatchingBlocks(a, 0, Len(a), b, 0, Len(b))
                    \o <<[i |-> Len(a), j |-> Len(b), k |-> 0]>>, 0, 0)

\* get_grouped_opcodes: the leading and trailing equal runs cut to n lines.
TrimEnds(codes, n) ==
    LET c1 == IF codes[1].tag = "equal"
              THEN [codes EXCEPT ![1] = Opcode("equal", Max2(@.i1, @.i2 - n), @.i2,
                                               Max2(@.j1, @.j2 - n), @.j2)]
              ELSE codes
        z == Len(c1)
    IN  IF c1[z].tag = "equal"
        THEN [c1 EXCEPT ![z] = Opcode("equal", @.i1, Min2(@.i2, @.i1 + n),
                                      @.j1, Min2(@.j2, @.j1 + n))]
        ELSE c1

\* The loop of get_grouped_opcodes: a run of more than 2n equal lines ends the
\* group and starts the next one.
RECURSIVE GroupFold(_, _, _)
GroupFold(codes, group, n) ==
    IF codes = <<>> THEN
        IF group # <<>> /\ ~(Len(group) = 1 /\ group[1].tag = "equal") THEN <<group>> ELSE <<>>
    ELSE LET c == Head(codes) IN
         IF c.tag = "equal" /\ c.i2 - c.i1 > n + n
         THEN <<Append(group, Opcode("equal", c.i1, Min2(c.i2, c.i1 + n), c.j1, Min2(c.j2, c.j1 + n)))>>
              \o GroupFold(Tail(codes),
                           <<Opcode("equal", Max2(c.i1, c.i2 - n), c.i2, Max2(c.j1, c.j2 - n), c.j2)>>, n)
         ELSE GroupFold(Tail(codes), Append(group, c), n)

GetGroupedOpcodes(a, b, n) ==
    LET codes == GetOpcodes(a, b) IN
    GroupFold(TrimEnds(IF codes = <<>> THEN <<Opcode("equal", 0, 1, 0, 1)>> ELSE codes, n), <<>>, n)

\* difflib._format_range_unified(start, stop)
FormatRangeUnified(start, stop) ==
    LET length == stop - start IN
    IF length = 1 THEN FormatInt(start + 1)
    ELSE FormatInt(IF length = 0 THEN start ELSE start + 1) \o <<",">> \o FormatInt(length)

Prefixed(c, lines) == [k \in 1..Len(lines) |-> <<c>> \o lines[k]]

RECURSIVE GroupLines(_, _, _)
GroupLines(group, a, b) ==
    IF group = <<>> THEN <<>>
    ELSE LET c == Head(group)
             these == IF c.tag = "equal" THEN Prefixed(SP, PySlice(a, c.i1, c.i2))
                      ELSE (IF c.tag \in {"replace", "delete"} THEN Prefixed("-", PySlice(a, c.i1, c.i2)) ELSE <<>>)
                           \o (IF c.tag \in {"replace", "insert"} THEN Prefixed("+", PySlice(b, c.j1, c.j2)) ELSE <<>>)
         IN  these \o GroupLines(Tail(group), a, b)

HunkLines(group, a, b) ==
    <<S_at_at \o <<SP, "-">> \o FormatRangeUnified(group[1].i1, Last(group).i2)
        \o <<SP, "+">> \o FormatRangeUnified(group[1].j1, Last(group).j2)
        \o <<SP>> \o S_at_at \o <<NL>>>>
    \o GroupLines(group, a, b)

RECURSIVE AllHunkLines(_, _, _)
AllHunkLines(groups, a, b) ==
    IF groups = <<>> THEN <<>>
    ELSE HunkLines(Head(groups), a, b) \o AllHunkLines(Tail(groups), a, b)

\* make_unified_diff(a_lines, b_lines, path): "".join(difflib.unified_diff(...,
\* fromfile="a/" + path, tofile="b/" + path, lineterm="\n")).
MakeUnifiedDiff(a_lines, b_lines, path) ==
    LET groups == GetGroupedOpcodes(a_lines, b_lines, ContextN) IN
    IF groups = <<>> THEN <<>>
    ELSE Join(<<S_old_prefix \o S_a_slash \o path \o <<NL>>,
                S_new_prefix \o S_b_slash \o path \o <<NL>>>>
              \o AllHunkLines(groups, a_lines, b_lines), <<>>)

\* ------------------------------------------------------------------------
\* Paths: pathlib.Path parsing and resolution, and the sandbox _resolve_safe
\* ------------------------------------------------------------------------
DotDot == <<".", ".">>
Dot == <<".">>

\* Path(str): the segments between '/', without empty and '.' segments;
\* a leading '/' makes the path absolute.
PathOf(path_str) ==
    [abs |-> path_str # <<>> /\ path_str[1] = "/",
     parts |-> SelectSeq(SplitOn(path_str, "/"), LAMBDA seg : seg # <<>> /\ seg # Dot)]

\* The directory tree the server runs in: the vault is the directory /v, and
\* the vault holds a symbolic link ln that points to the filesystem root.
N_v == <<"v">>
N_ln == <<"l", "n">>
N_trash == <<".", "t", "r", "a", "s", "h">>
VAULT_PATH == [abs |-> TRUE, parts |-> <<N_v>>]
SymlinkAt == <<N_v, N_ln>>
SymlinkTarget == <<>>

\* os.path.normpath in place of Path.resolve(): '..' is folded, links are not followed.
RECURSIVE ResolveLexical(_, _)
ResolveLexical(stack, parts) ==
    IF parts = <<>> THEN stack
    ELSE IF Head(parts) = DotDot
         THEN ResolveLexical(IF stack = <<>> THEN <<>> ELSE SubSeq(stack, 1, Len(stack) - 1), Tail(parts))
    ELSE ResolveLexical(Append(stack, Head(parts)), Tail(parts))

\* Path.resolve(): '..' steps to the parent (the root is its own parent), a
\* symbolic link is replaced by its target, other names are appended.
RECURSIVE ResolveFrom(_, _)
ResolveFrom(stack, parts) ==
    IF parts = <<>> THEN stack
    ELSE IF Head(parts) = DotDot
         THEN ResolveFrom(IF stack = <<>> THEN <<>> ELSE SubSeq(stack, 1, Len(stack) - 1), Tail(parts))
    ELSE IF Append(stack, Head(parts)) = SymlinkAt THEN ResolveFrom(SymlinkTarget, Tail(parts))
    ELSE ResolveFrom(Append(stack, Head(parts)), Tail(parts))

\* VAULT_PATH / path: an absolute right operand replaces the left one.
JoinPath(base, path) ==
    IF path.abs THEN path ELSE [abs |-> TRUE, parts |-> base.parts \o path.parts]

\* PurePath.relative_to(other) succeeds: other's segments are a prefix.
IsRelativeTo(resolved, base) ==
    Len(base) <= Len(resolved) /\ SubSeq(resolved, 1, Len(base)) = base

\* _resolve_safe(path): ok = FALSE is HTTPException(400, "Invalid file path").
ResolveSafe(path_str) ==
    LET resolved == ResolveFrom(<<>>, JoinPath(VAULT_PATH, PathOf(path_str)).parts)
        vault_resolved == ResolveFrom(<<>>, VAULT_PATH.parts)
    IN  [ok |-> IsRelativeTo(resolved, vault_resolved), resolved |-> resolved]

\* All proper ancestors of a path (what mkdir(parents=True) creates).
Ancestors(path) == {SubSeq(path, 1, k) : k \in 0..(Len(path) - 1)}

Parent(path) == SubSeq(path, 1, Len(path) - 1)

\* ------------------------------------------------------------------------
\* State
\* ------------------------------------------------------------------------
VARIABLES
    files,      \* the regular files on disk: resolved path -> content
    dirs,       \* the directories on disk
    loop,       \* the request whose handler runs on the event loop (async def)
    reader,     \* the read request that runs on a thread of the thread pool (def)
    crashed,    \* the server process was killed
    wrote,      \* paths whose content was put there by a write that returned 200
    served,     \* how many handlers the event loop has started
    goal        \* the edit a diffing client is making: its old and new text and its diff

vars == <<files, dirs, loop, reader, crashed, wrote, served, goal>>

\* The event loop handles at most this many requests in a run.
MaxRequests == 2

\* Request texts the clients send.
T1 == <<"a", NL, "b", NL>>
T2 == <<"a", NL, "c", NL, "b", NL>>
U1 == <<"x", "y", NL>>
Secret == <<"s", NL>>

P_a == <<"a", ".", "m", "d">>
P_n == <<"n", ".", "m", "d">>
P_up == <<".", ".", "/", "o", ".", "m", "d">>
P_abs == <<"/", "o", ".", "m", "d">>
P_link == <<"l", "n", "/", "o", ".", "m", "d">>
P_root == <<>>
P_dot == <<"s", "/", ".", ".", "/", "a", ".", "m", "d">>

ClientPaths == {P_a, P_n, P_up, P_abs, P_link, P_root, P_dot}

D12 == MakeUnifiedDiff(SplitLinesKeep(T1), SplitLinesKeep(T2), P_a)
D21 == MakeUnifiedDiff(SplitLinesKeep(T2), SplitLinesKeep(T1), P_a)
D12Escaped == Replace(D12, <<NL>>, <<BS, "n">>)
DNoHeaders == <<"@", "@", SP, "-", "1", ",", "2", SP, "+", "1", ",", "3", SP, "@", "@", NL,
                SP, "a", NL, SP, "b", NL, "+", "c">>

ClientDiffs == {<<>>, D12, D21, D12Escaped, DNoHeaders}
ClientContents == {<<>>, U1, T1}

\* The expected-prior fingerprint a client may send along (<<>>: none sent).
ClientFingerprints == {<<>>, Sha256(T1)}

OutsideFile == <<<<"o", ".", "m", "d">>>>
VaultFile(name) == <<N_v, name>>

NoReq ==
    [pc |-> "idle", op |-> "none", path |-> <<>>, body |-> <<>>, expected |-> <<>>,
     resolved |-> <<>>, status |-> 0, detail |-> "", new_text |-> <<>>, etag |-> <<>>,
     header |-> <<>>, out |-> <<>>, off |-> 0, snap |-> <<>>, log |-> <<>>, view |-> {}]

NoGoal == [old |-> <<>>, new |-> <<>>, diff |-> <<>>]

Init ==
    /\ files = (VaultFile(P_a) :> T1) @@ (OutsideFile :> Secret)
    /\ dirs = {<<>>, <<N_v>>}
    /\ loop = NoReq
    /\ reader = NoReq
    /\ crashed = FALSE
    /\ wrote = {}
    /\ served = 0
    /\ goal = NoGoal

\* exists() that sees directories only.
ExistsAsDir(p) == p \in dirs

\* Path.is_file() and Path.exists() on a resolved path.
IsFile(p) == p \in DOMAIN files
Exists(p) == p \in DOMAIN files \/ p \in dirs

\* An event loop that starts the next handler while the running one is inside
\* write_text, as it would if the write were awaited.
LoopFreeAtWrite == loop.pc \in {"idle", "write", "writing"}

\* A handler declared `async def` runs on the event loop; none of the handlers
\* awaits, so a handler that has started returns before the next one starts.
LoopFree == loop.pc = "idle"

\* The event loop takes the next request and calls its handler.
Accept == ~crashed /\ LoopFree /\ served < MaxRequests /\ served' = served + 1

\* raise HTTPException(status_code, detail): the handler has nothing left to do
\* but return.
Raise(r, status, detail) == [r EXCEPT !.pc = "respond", !.status = status, !.detail = detail]

Logged(r, kind, p) == [r EXCEPT !.log = Append(@, <<kind, p>>)]

\* A request as its handler starts; snap is what the disk held at that moment.
NewRequest(op, path, body, expected) ==
    [NoReq EXCEPT !.op = op, !.path = path, !.body = body, !.expected = expected,
                  !.snap = IF op = "read" THEN <<>> ELSE files]

\* ------------------------------------------------------------------------
\* Handlers. Each handler runs from its first line to its write (or to the
\* exception it raises) in one step; Path.write_text then opens the file,
\* which truncates it, and writes the text in one or more chunks.
\* ------------------------------------------------------------------------
\* PUT /files
update_file(path, content, expected) ==
    /\ Accept
    /\ LET rs == ResolveSafe(path)
           r0 == NewRequest("update", path, content, expected)
           r1 == Logged([r0 EXCEPT !.resolved = rs.resolved], "stat", rs.resolved)
       IN  loop' = IF ~rs.ok THEN Raise(r0, 400, "Invalid file path")
                   ELSE IF ~IsFile(rs.resolved) THEN Raise(r1, 404, "File not found")
                   ELSE [r1 EXCEPT !.pc = "write", !.new_text = content]
    /\ UNCHANGED <<files, dirs, reader, crashed, wrote, goal>>

\* PATCH /files with the empty-diff test ahead of the path and file tests.
patch_file_empty_first(path, diff, expected) ==
    /\ Accept
    /\ LET rs == ResolveSafe(path)
           r0 == NewRequest("patch", path, diff, expected)
           r1 == Logged([r0 EXCEPT !.resolved = rs.resolved], "stat", rs.resolved)
           r2 == Logged(r1, "read", rs.resolved)
           res == ApplyPatchText(path, files[rs.resolved], diff)
       IN  loop' = IF diff = <<>> THEN Raise(r0, 400, "Empty diff")
                   ELSE IF ~rs.ok THEN Raise(r0, 400, "Invalid file path")
                   ELSE IF ~IsFile(rs.resolved) THEN Raise(r1, 404, "File not found")
                   ELSE IF res.status # 200 THEN Raise(r2, res.status, res.detail)
                   ELSE [r2 EXCEPT !.pc = "write", !.new_text = res.new_text]
    /\ UNCHANGED <<files, dirs, reader, crashed, wrote, goal>>

\* PATCH /files
patch_file(path, diff, expected) ==
    /\ Accept
    /\ LET rs == ResolveSafe(path)
           r0 == NewRequest("patch", path, diff, expected)
           r1 == Logged([r0 EXCEPT !.resolved = rs.resolved], "stat", rs.resolved)
           r2 == Logged(r1, "read", rs.resolved)
           original_text == files[rs.resolved]
           res == ApplyPatchText(path, original_text, diff)
       IN  loop' = IF ~rs.ok THEN Raise(r0, 400, "Invalid file path")
                   ELSE IF ~IsFile(rs.resolved) THEN Raise(r1, 404, "File not found")
                   ELSE IF diff = <<>> THEN Raise(r1, 400, "Empty diff")
                   ELSE IF res.status # 200 THEN Raise(r2, res.status, res.detail)
                   ELSE [r2 EXCEPT !.pc = "write", !.new_text = res.new_text]
    /\ UNCHANGED <<files, dirs, reader, crashed, wrote, goal>>

\* POST /files
create_file(path, content) ==
    /\ Accept
    /\ LET rs == ResolveSafe(path)
           r0 == NewRequest("create", path, content, <<>>)
           r1 == Logged([r0 EXCEPT !.resolved = rs.resolved], "stat", rs.resolved)
           r2 == Logged(r1, "mkdir", Parent(rs.resolved))
           ok == rs.ok /\ content # <<>> /\ ~Exists(rs.resolved)
       IN  /\ loop' = IF ~rs.ok THEN Raise(r0, 400, "Invalid file path")
                      ELSE IF content = <<>> THEN Raise(r0, 400, "Empty content provided")
                      ELSE IF Exists(rs.resolved) THEN Raise(r1, 400, "File already exists")
                      ELSE [r2 EXCEPT !.pc = "write", !.new_text = content]
           /\ dirs' = IF ok THEN dirs \cup Ancestors(rs.resolved) ELSE dirs
    /\ UNCHANGED <<files, reader, crashed, wrote, goal>>

\* The destination of trash_file: VAULT_PATH / ".trash" / src.relative_to(vault).
\* A destination that is the source itself.
TrashDestInPlace(src) == src

TrashDest(src) == VAULT_PATH.parts \o <<N_trash>> \o From(src, Len(VAULT_PATH.parts) + 1)

\* POST /files/trash
trash_file(path) ==
    /\ Accept
    /\ LET rs == ResolveSafe(path)
           r0 == NewRequest("trash", path, <<>>, <<>>)
           r1 == Logged([r0 EXCEPT !.resolved = rs.resolved], "stat", rs.resolved)
           dest == TrashDest(rs.resolved)
           r2 == Logged(Logged(r1, "mkdir", Parent(dest)), "rename", rs.resolved)
           ok == rs.ok /\ IsFile(rs.resolved)
       IN  /\ loop' = IF ~rs.ok THEN Raise(r0, 400, "Invalid file path")
                      ELSE IF ~IsFile(rs.resolved) THEN Raise(r1, 404, "File not found")
                      ELSE IF dest \in dirs THEN Raise(r2, 500, "Internal server error")
                      ELSE Raise(r2, 200, "File moved to trash")
           /\ dirs' = IF ok THEN dirs \cup Ancestors(dest) ELSE dirs
           /\ files' = IF ok /\ dest \notin dirs
                       THEN [q \in (DOMAIN files \ {rs.resolved}) \cup {dest} |->
                                IF q = dest THEN files[rs.resolved] ELSE files[q]]
                       ELSE files
    /\ UNCHANGED <<reader, crashed, wrote, goal>>

\* DELETE /files
delete_file(path) ==
    /\ Accept
    /\ LET rs == ResolveSafe(path)
           r0 == NewRequest("delete", path, <<>>, <<>>)
           r1 == Logged([r0 EXCEPT !.resolved = rs.resolved], "stat", rs.resolved)
           ok == rs.ok /\ IsFile(rs.resolved)
       IN  /\ loop' = IF ~rs.ok THEN Raise(r0, 400, "Invalid file path")
                      ELSE IF ~IsFile(rs.resolved) THEN Raise(r1, 404, "File not found")
                      ELSE Raise(Logged(r1, "unlink", rs.resolved), 200, "File permanently deleted")
           /\ files' = IF ok THEN [q \in DOMAIN files \ {rs.resolved} |-> files[q]] ELSE files
    /\ UNCHANGED <<dirs, reader, crashed, wrote, goal>>

\* The hash taken of the text that was read instead of the text that was written.
NewHashOfOriginal(r) == Sha256(r.snap[r.resolved])

\* new_hash = hashlib.sha256(new_text.encode("utf-8")).hexdigest()
NewHash(r) == Sha256(r.new_text)

\* What the handler does after write_text returned, up to its return statement.
Finished(r) ==
    LET ok == Raise(r, 200, IF r.op = "patch" THEN "patched"
                            ELSE IF r.op = "update" THEN "File updated successfully"
                            ELSE "File created successfully")
    IN  IF r.op = "patch"
        THEN [ok EXCEPT !.etag = NewHash(r), !.header = NewHash(r),
                        !.out = r.new_text]
        ELSE Logged(ok, "stat", r.resolved)

\* The file opened for update ("r+") instead: its old content stays in place.
OpenWithoutTruncate(old_data) == old_data

\* open(path, "w"): the file is created if missing and truncated to nothing.
OpenForWrite(old_data) == <<>>

\* The byte a hole of a file reads as.
NUL == "\\0"

\* The first off bytes of a file that is written at offset off: a file shorter
\* than the offset is filled up with NUL.
UpTo(data, off) ==
    IF Len(data) < off THEN data \o [k \in 1..(off - Len(data)) |-> NUL] ELSE Take(data, off)

\* write(chunk) at offset off of a file that holds data.
WriteAt(data, off, chunk) == UpTo(data, off) \o chunk \o From(data, off + Len(chunk) + 1)

\* A write that goes through a temporary file beside p and leaves it there.
SetFileLeavingTemp(p, data) ==
    [q \in DOMAIN files \cup {p, Append(Parent(p), p[Len(p)] \o <<".", "t", "m", "p">>)} |->
        IF q = p THEN data ELSE IF q \in DOMAIN files THEN files[q] ELSE data]

SetFile(p, data) == [q \in DOMAIN files \cup {p} |-> IF q = p THEN data ELSE files[q]]

\* The request on the event loop has opened its target for writing.
Opened(r) == \E k \in 1..Len(r.log) : r.log[k][1] = "open"

\* The target opened for writing whether or not the handler raised: a rejected
\* request truncates its target as well.
WriteOpenAlways ==
    /\ ~crashed /\ loop.pc \in {"write", "respond"} /\ ~Opened(loop)
    /\ loop.resolved \in DOMAIN files \/ loop.pc = "write"
    /\ files' = SetFile(loop.resolved, <<>>)
    /\ LET r == Logged([loop EXCEPT !.off = 0], "open", loop.resolved)
       IN  loop' = IF loop.pc = "respond" THEN r
                   ELSE IF loop.new_text = <<>> THEN Finished(r) ELSE [r EXCEPT !.pc = "writing"]
    /\ UNCHANGED <<dirs, reader, crashed, wrote, served, goal>>

\* Path.write_text, first half: open the file for writing.
WriteOpen ==
    /\ ~crashed /\ loop.pc = "write"
    /\ files' = SetFile(loop.resolved,
                        OpenForWrite(IF IsFile(loop.resolved) THEN files[loop.resolved] ELSE <<>>))
    /\ LET r == Logged([loop EXCEPT !.off = 0], "open", loop.resolved)
       IN  loop' = IF loop.new_text = <<>> THEN Finished(r) ELSE [r EXCEPT !.pc = "writing"]
    /\ UNCHANGED <<dirs, reader, crashed, wrote, served, goal>>

\* The buffered writer hands the text to the file in pieces of at most this
\* many characters (a scaled-down io.DEFAULT_BUFFER_SIZE).
BufferSize == 4

\* Path.write_text, second half: the next piece of the text reaches the file.
WriteChunk ==
    /\ ~crashed /\ loop.pc = "writing"
    /\ LET k == Min2(BufferSize, Len(loop.new_text) - loop.off)
           r == Logged([loop EXCEPT !.off = @ + k], "write", loop.resolved)
       IN  /\ files' = SetFile(loop.resolved,
                               WriteAt(files[loop.resolved], loop.off,
                                       SubSeq(loop.new_text, loop.off + 1, loop.off + k)))
           /\ loop' = IF r.off = Len(r.new_text) THEN Finished(r) ELSE r
    /\ UNCHANGED <<dirs, reader, crashed, wrote, served, goal>>

\* write_text raises (disk full, I/O error): the handler answers 500.
WriteFail ==
    /\ ~crashed /\ loop.pc \in {"write", "writing"}
    /\ loop' = Raise(loop, 500, "Internal server error")
    /\ UNCHANGED <<files, dirs, reader, crashed, wrote, served, goal>>

IsWrite(r) == r.op \in {"create", "update", "patch"}

\* The handler returns (or its exception leaves it): the response goes out and
\* the event loop is free for the next handler.
Return ==
    /\ ~crashed /\ loop.pc = "respond"
    /\ loop' = NoReq
    /\ wrote' = IF IsWrite(loop) /\ loop.status = 200 THEN wrote \cup {loop.resolved}
                ELSE IF loop.status \in {200, 500} THEN wrote \ {loop.resolved}
                ELSE wrote
    /\ UNCHANGED <<files, dirs, reader, crashed, served, goal>>

\* GET /files, up to the is_file() check; the handler is a plain def, so it
\* runs on a worker thread beside whatever the event loop is doing.
read_file(path) ==
    /\ ~crashed /\ reader.pc = "idle"
    /\ LET rs == ResolveSafe(path)
           r0 == NewRequest("read", path, <<>>, <<>>)
           r1 == Logged([r0 EXCEPT !.resolved = rs.resolved], "stat", rs.resolved)
       IN  reader' = IF ~rs.ok THEN Raise(r0, 400, "Invalid file path")
                     ELSE IF ~IsFile(rs.resolved) THEN Raise(r1, 404, "File not found")
                     ELSE [r1 EXCEPT !.pc = "reading"]
    /\ UNCHANGED <<files, dirs, loop, crashed, wrote, served, goal>>

\* GET /files: full_path.read_text(). view is the set of complete contents the
\* file has around this read: what is on disk, or, while a replace or patch
\* request has the file open, the content before it and the content it writes.
ReadText ==
    /\ ~crashed /\ reader.pc = "reading"
    /\ LET p == reader.resolved
           r == Logged(reader, "read", p)
       IN  reader' =
             IF ~IsFile(p) THEN Raise(r, 500, "Internal server error")
             ELSE [Raise(r, 200, "") EXCEPT
                     !.out = files[p],
                     !.view = IF loop.op \in {"update", "patch"} /\ loop.resolved = p /\ Opened(loop)
                              THEN {loop.snap[p], loop.new_text}
                              ELSE {files[p]}]
    /\ UNCHANGED <<files, dirs, loop, crashed, wrote, served, goal>>

ReadReturn ==
    /\ ~crashed /\ reader.pc = "respond"
    /\ reader' = NoReq
    /\ UNCHANGED <<files, dirs, loop, crashed, wrote, served, goal>>

\* The server process is killed while a handler is running.
Crash ==
    /\ ~crashed /\ loop.pc # "idle"
    /\ crashed' = TRUE
    /\ UNCHANGED <<files, dirs, loop, reader, wrote, served, goal>>

Next ==
    \/ \E path \in ClientPaths, content \in ClientContents, fp \in ClientFingerprints :
          update_file(path, content, fp)
    \/ \E path \in ClientPaths, diff \in ClientDiffs, fp \in ClientFingerprints :
          patch_file(path, diff, fp)
    \/ \E path \in ClientPaths, content \in ClientContents : create_file(path, content)
    \/ \E path \in ClientPaths : trash_file(path)
    \/ \E path \in ClientPaths : delete_file(path)
    \/ \E path \in ClientPaths : read_file(path)
    \/ WriteOpen
    \/ WriteChunk
    \/ WriteFail
    \/ Return
    \/ ReadText
    \/ ReadReturn
    \/ Crash

Spec == Init /\ [][Next]_vars

\* ------------------------------------------------------------------------
\* A diffing client: it holds the file's text (old), edits it (new), sends
\* make_unified_diff(old, new) to PATCH /files, plain or with its newlines
\* JSON-escaped a second time, as the tests do.
\* ------------------------------------------------------------------------
\* The texts have at most MaxLines lines, each terminated by LF.
MaxLines == 2

PatchLines == {<<>>, <<"a">>, <<"b">>, <<BS, "n">>}

RECURSIVE TextsOf(_)
TextsOf(n) ==
    IF n = 0 THEN {<<>>}
    ELSE TextsOf(n - 1) \cup {t \o l \o <<NL>> : t \in TextsOf(n - 1), l \in PatchLines}

LFTexts == TextsOf(MaxLines)

\* escaped = diff_text.replace("\n", "\\n")
EscapeNewlines(diff_text) == Replace(diff_text, <<NL>>, <<BS, "n">>)

InitPatch ==
    /\ \E old \in LFTexts, new \in LFTexts :
          /\ files = (VaultFile(P_a) :> old) @@ (OutsideFile :> Secret)
          /\ goal = [old |-> old, new |-> new,
                     diff |-> MakeUnifiedDiff(SplitLinesKeep(old), SplitLinesKeep(new), P_a)]
    /\ dirs = {<<>>, <<N_v>>}
    /\ loop = NoReq
    /\ reader = NoReq
    /\ crashed = FALSE
    /\ wrote = {}
    /\ served = 0

\* client.patch("/files", json={"path": ..., "diff": ...}) with the diff as
\* made, or with its newlines escaped.
SendPatch(escaped) ==
    /\ served = 0
    /\ patch_file(P_a, IF escaped THEN EscapeNewlines(goal.diff) ELSE goal.diff, <<>>)

NextPatch ==
    \/ \E escaped \in BOOLEAN : SendPatch(escaped)
    \/ WriteOpen
    \/ WriteChunk
    \/ Return

SpecPatch == InitPatch /\ [][NextPatch]_vars

\* ------------------------------------------------------------------------
\* A client that writes its payloads by hand: PATCH /files on a.md with
\* well-formed, damaged and foreign payloads, against several file contents.
\* ------------------------------------------------------------------------
\* The two file-header lines of a unified diff that names the file.
FileHeaders(name) ==
    S_old_prefix \o S_a_slash \o name \o <<NL>> \o S_new_prefix \o S_b_slash \o name \o <<NL>>

P_other == <<"o", "t", "h", "e", "r", ".", "m", "d">>

A1 == <<"a", NL>>
C1Text == <<"c", NL>>
NoEOL == <<"a">>
BlankLast == <<"a", NL, NL>>

\* What a.md may hold when the payload arrives.
FileTexts == {T1, U1, A1, NoEOL, BlankLast}

\* 'a' becomes 'c' in a one-line file: "@@ -1 +1 @@", "-a", "+c".
DChange == MakeUnifiedDiff(SplitLinesKeep(A1), SplitLinesKeep(C1Text), P_a)
\* 'b' appended to the one-line file 'a': "@@ -1 +1,2 @@", " a", "+b".
DAppend == MakeUnifiedDiff(SplitLinesKeep(A1), SplitLinesKeep(T1), P_a)
\* Every line of the one-line file 'a' deleted: "@@ -1 +0,0 @@", "-a".
DDeleteAll == MakeUnifiedDiff(SplitLinesKeep(A1), <<>>, P_a)
\* The diff of T1 and T2 with headers that name n.md, and that name other.md.
DOther == MakeUnifiedDiff(SplitLinesKeep(T1), SplitLinesKeep(T2), P_n)
DOtherMd == MakeUnifiedDiff(SplitLinesKeep(T1), SplitLinesKeep(T2), P_other)
\* File headers and nothing else.
DOnlyHeaders == FileHeaders(P_a)
\* File headers followed by a hunk in the normal diff format: "1d0", "< a".
DNormal == FileHeaders(P_a) \o <<"1", "d", "0", NL, "<", SP, "a", NL>>
\* Tagged lines: keep 'a', delete 'b', insert 'c'.
DTagged == <<SP, SP, "a", NL, "-", SP, "b", NL, "+", SP, "c", NL>>
\* Tagged lines with a tag that is none of the four.
DTaggedBad == <<SP, SP, "a", NL, "*", SP, "b", NL>>

DeltaPayloads ==
    {D12, DNoHeaders, DOnlyHeaders, DNormal, DOther, DOtherMd, DChange, DAppend,
     DDeleteAll, DTagged, DTaggedBad}

InitDelta ==
    /\ \E t \in FileTexts : files = (VaultFile(P_a) :> t) @@ (OutsideFile :> Secret)
    /\ dirs = {<<>>, <<N_v>>}
    /\ loop = NoReq
    /\ reader = NoReq
    /\ crashed = FALSE
    /\ wrote = {}
    /\ served = 0
    /\ goal = NoGoal

\* client.patch("/files", json={"path": "a.md", "diff": payload})
SendDelta(payload) == patch_file(P_a, payload, <<>>)

NextDelta ==
    \/ \E payload \in DeltaPayloads : SendDelta(payload)
    \/ WriteOpen
    \/ WriteChunk
    \/ Return

SpecDelta == InitDelta /\ [][NextDelta]_vars

\* ------------------------------------------------------------------------
\* The daily note beside the mutating handlers. get_daily_note is a plain
\* def: it runs on a worker thread, and each of its file system calls may
\* fall between two steps of the handler on the event loop.
\* ------------------------------------------------------------------------
\* CONFIG["daily_note"]["location"] formatted for today, under the vault: here
\* the name n.md, which the clients of /files use as well.
DailyNote == VaultFile(P_n)

\* The configured template as rendered for today.
Rendered == <<"t", NL>>

\* What CONFIG["daily_note"] may hold for the template: none (<<>>) or one.
Templates == {<<>>, Rendered}

\* GET /api/daily-note up to the is_file() check. body is the rendered
\* template of the configuration the server runs with.
get_daily_note(template) ==
    /\ ~crashed /\ reader.pc = "idle"
    /\ LET r0 == NewRequest("daily", P_n, template, <<>>)
           r1 == Logged([r0 EXCEPT !.resolved = DailyNote, !.snap = files],
                        "mkdir", Parent(DailyNote))
           r2 == Logged(r1, "stat", DailyNote)
       IN  reader' = IF IsFile(DailyNote) THEN [r2 EXCEPT !.pc = "reading"]
                     ELSE [r2 EXCEPT !.pc = "create"]
    /\ dirs' = dirs \cup Ancestors(DailyNote)
    /\ UNCHANGED <<files, loop, crashed, wrote, served, goal>>

\* full_path.touch(): no template is configured. The file is made empty if
\* it is not there; a file that is there keeps its content.
DailyTouch ==
    /\ ~crashed /\ reader.pc = "create" /\ reader.body = <<>>
    /\ files' = IF IsFile(reader.resolved) THEN files ELSE SetFile(reader.resolved, <<>>)
    /\ reader' = [Logged(reader, "touch", reader.resolved) EXCEPT !.pc = "reading"]
    /\ UNCHANGED <<dirs, loop, crashed, wrote, served, goal>>

\* full_path.write_text(rendered): the file is truncated and holds the
\* rendered template (shorter than one buffer, taken as one step).
DailyWriteText ==
    /\ ~crashed /\ reader.pc = "create" /\ reader.body # <<>>
    /\ files' = SetFile(reader.resolved, reader.body)
    /\ reader' = [Logged(reader, "write", reader.resolved) EXCEPT !.pc = "reading"]
    /\ UNCHANGED <<dirs, loop, crashed, wrote, served, goal>>

ThreadPaths == {P_a, P_n}
ThreadContents == {T1, U1}
ThreadDiffs == {<<>>, D12}

NextThreads ==
    \/ \E path \in ThreadPaths, content \in ThreadContents : create_file(path, content)
    \/ \E path \in ThreadPaths, content \in ThreadContents : update_file(path, content, <<>>)
    \/ \E path \in ThreadPaths, diff \in ThreadDiffs : patch_file(path, diff, <<>>)
    \/ \E path \in ThreadPaths : trash_file(path)
    \/ \E path \in ThreadPaths : delete_file(path)
    \/ WriteOpen
    \/ WriteChunk
    \/ Return
    \/ \E template \in Templates : get_daily_note(template)
    \/ \E path \in ThreadPaths : read_file(path)
    \/ DailyTouch
    \/ DailyWriteText
    \/ ReadText
    \/ ReadReturn

SpecThreads == Init /\ [][NextThreads]_vars

\* ------------------------------------------------------------------------
\* Properties of the path sandbox.
\* ------------------------------------------------------------------------
\* Client paths that name something outside the vault: through '..', as an
\* absolute path, and through a symlink inside the vault.
EscapingPaths == {P_up, P_abs, P_link}

\* Client paths that name the vault root itself.
RootPaths == {P_root}

Requests == {loop, reader}

MutatingOps == {"open", "write", "mkdir", "rename", "unlink"}

\* C1: a request of any path-taking endpoint whose path resolves outside the
\* vault is answered 400 "Invalid file path"; it has touched no file and no
\* directory, inside or outside the vault, not even with a stat or a read.
SandboxRejectsEscapes ==
    /\ \A r \in Requests :
          (r.pc # "idle" /\ r.path \in EscapingPaths) =>
              /\ r.pc = "respond" /\ r.status = 400 /\ r.detail = "Invalid file path"
              /\ r.log = <<>>
    /\ (loop.pc # "idle" /\ loop.path \in EscapingPaths) => files = loop.snap
    /\ OutsideFile \in DOMAIN files /\ files[OutsideFile] = Secret

SandboxRejectsEscapesWitness ==
    /\ loop.pc = "respond" /\ loop.op = "patch" /\ loop.path = P_link /\ loop.status = 400
    /\ reader.pc = "respond" /\ reader.path = P_up /\ reader.status = 400

\* C2: the sandbox accepts a path only if it resolves to a strict descendant
\* of the vault root: a path that escapes the vault and a path that resolves
\* to the root itself (the empty path) are both rejected as invalid, and a
\* path that is not rejected has resolved strictly below the root.
SandboxAcceptsOnlyStrictDescendants ==
    \A r \in Requests :
        r.pc # "idle" =>
            /\ r.path \in EscapingPaths \cup RootPaths => r.detail = "Invalid file path"
            /\ r.detail # "Invalid file path" =>
                  /\ Len(r.resolved) > Len(VAULT_PATH.parts)
                  /\ Take(r.resolved, Len(VAULT_PATH.parts)) = VAULT_PATH.parts

\* ------------------------------------------------------------------------
\* Properties of PATCH /files.
\* ------------------------------------------------------------------------
\* C3: a patch request answered with a validation error (400) or with not
\* found (404) has changed nothing: every file holds what it held when the
\* request arrived, and the request has opened, written, moved or removed
\* nothing.
PatchErrorLeavesFilesUnchanged ==
    (loop.op = "patch" /\ loop.pc = "respond" /\ loop.status \in {400, 404}) =>
        /\ files = loop.snap
        /\ \A k \in 1..Len(loop.log) : loop.log[k][1] \notin MutatingOps

PatchErrorLeavesFilesUnchangedWitness ==
    /\ loop.op = "patch" /\ loop.pc = "respond"
    /\ loop.status = 400 /\ loop.detail = "Failed to apply patch"
    /\ files = loop.snap /\ served = MaxRequests

\* C4: a patch request answered 200 has left the file holding exactly the
\* patched text; the fingerprint in the body is the SHA-256 of that text and
\* the ETag header carries the same fingerprint.
PatchSuccessCommitsNewContent ==
    (loop.op = "patch" /\ loop.pc = "respond" /\ loop.status = 200) =>
        /\ files[loop.resolved] = ApplyPatchText(loop.path, loop.snap[loop.resolved], loop.body).new_text
        /\ loop.etag = Sha256(files[loop.resolved])
        /\ loop.header = loop.etag

PatchSuccessCommitsNewContentWitness ==
    /\ loop.op = "patch" /\ loop.pc = "respond" /\ loop.status = 200
    /\ files[loop.resolved] = T2 /\ loop.snap[loop.resolved] = T1
    /\ loop.etag = Sha256(T2)

\* ------------------------------------------------------------------------
\* Properties of the write step.
\* ------------------------------------------------------------------------
\* A replace or patch request whose target is a file of the vault.
Rewrites(r) == r.op \in {"update", "patch"} /\ r.resolved \in DOMAIN r.snap

\* C5: a replace or patch request that carries an expected fingerprint other
\* than the SHA-256 of the file's content is not carried out: it is answered
\* with a failure and the file holds what it held when the request arrived.
ConflictGuardRejectsStale ==
    (loop.pc = "respond" /\ Rewrites(loop) /\ loop.expected # <<>>
        /\ loop.expected # Sha256(loop.snap[loop.resolved])) =>
        /\ loop.status # 200
        /\ files[loop.resolved] = loop.snap[loop.resolved]

\* C6: a patch or replace request interrupted in its write step, by a crash of
\* the server or by a failing write, leaves the target holding the complete
\* old content or the complete new content.
InterruptedWriteIsAtomic ==
    (Rewrites(loop) /\ loop.pc # "idle" /\ (crashed \/ loop.status = 500)) =>
        files[loop.resolved] \in {loop.snap[loop.resolved], loop.new_text}

\* C7: a read answered 200 returns a complete content of the file: what the
\* file held before the patch or replace request that runs beside it, or what
\* that request writes.
ReaderSeesCompleteContent ==
    (reader.pc = "respond" /\ reader.status = 200) => reader.out \in reader.view

\* C8: a patch or replace request that reports success has written its text
\* in full, also when an earlier request has written the same file: the file
\* holds exactly the text of the request that finished last.
LastWriterWins ==
    (loop.pc = "respond" /\ Rewrites(loop) /\ loop.status = 200) =>
        files[loop.resolved] = loop.new_text

LastWriterWinsWitness ==
    /\ loop.pc = "respond" /\ Rewrites(loop) /\ loop.status = 200
    /\ loop.resolved \in wrote
    /\ loop.snap[loop.resolved] = T2 /\ files[loop.resolved] = U1

\* ------------------------------------------------------------------------
\* Properties of the diffing client.
\* ------------------------------------------------------------------------
\* C9: for two different LF-line texts old and new, sending the unified diff
\* made from (old, new) to a file that holds old succeeds and leaves the file
\* equal to new.
DiffRoundTrip ==
    (loop.pc = "respond" /\ loop.body = goal.diff /\ goal.old # goal.new) =>
        /\ loop.status = 200
        /\ files[VaultFile(P_a)] = goal.new

\* What the server does with the diff sent as it is.
PlainOutcome == ApplyPatchText(P_a, goal.old, goal.diff)

\* C10: when a diff applies to the file, the same diff sent with each newline
\* replaced by backslash+n succeeds as well, leaves the same content in the
\* file and answers with the same fingerprint.
EscapedDiffSameResult ==
    (loop.pc = "respond" /\ loop.body = EscapeNewlines(goal.diff)
        /\ goal.diff # <<>> /\ PlainOutcome.status = 200) =>
        /\ loop.status = 200
        /\ files[VaultFile(P_a)] = PlainOutcome.new_text
        /\ loop.etag = Sha256(PlainOutcome.new_text)

EscapedDiffSameResultWitness ==
    /\ loop.pc = "respond" /\ loop.body = EscapeNewlines(goal.diff)
    /\ loop.body # goal.diff /\ loop.status = 200
    /\ goal.old = <<"a", NL>> /\ goal.new = <<"a", NL, "b", NL>>
    /\ files[VaultFile(P_a)] = goal.new

\* ------------------------------------------------------------------------
\* Properties of the payload handling.
\* ------------------------------------------------------------------------
\* C11: the repair of the payload leaves a well-formed diff with real
\* newlines as it is, also when lines of the diff hold the two characters
\* backslash and n, and repairing twice gives what repairing once gives.
NormalizationKeepsWellFormed ==
    (loop.pc = "respond" /\ loop.op = "patch" /\ loop.body = goal.diff /\ goal.diff # <<>>) =>
        /\ Unescape(loop.body) = loop.body
        /\ Unescape(Unescape(loop.body)) = Unescape(loop.body)

\* A patch request whose target is a file of the vault and whose payload is
\* not empty: it got past the sandbox, the existence and the empty-diff checks.
PatchReached(r) == r.op = "patch" /\ r.resolved \in DOMAIN r.snap /\ r.body # <<>>

\* A file name as a diff header gives it, without its a/ or b/ prefix.
Unprefixed(name) ==
    IF StartsWith(name, S_b_slash) \/ StartsWith(name, S_a_slash) THEN From(name, 3) ELSE name

\* The file the '+++ ' header of the payload names; <<>> when it has none.
HeaderName(payload) == Unprefixed(TargetFile(SplitLinesKeep(Unescape(payload))))

\* The '+++ ' header names neither the request path nor its basename.
NamesAnotherFile(path, payload) ==
    /\ HeaderName(payload) # <<>>
    /\ HeaderName(payload) # path
    /\ HeaderName(payload) # Last(SplitOn(path, "/"))

\* C12: a patch whose '+++ ' header names a file that is neither the request
\* path nor its basename is rejected with 400 and the requested file keeps
\* its content, whatever the header names. (The formula leaves the text of
\* the error open.)
ForeignDiffRejected ==
    (loop.pc = "respond" /\ PatchReached(loop) /\ NamesAnotherFile(loop.path, loop.body)) =>
        /\ loop.status = 400
        /\ files = loop.snap

\* The lines of the payload as the handler splits them.
PayloadLines(payload) == SplitLinesKeep(Unescape(payload))

\* The payload holds a '--- ' line and a '+++ ' line.
HasFileHeaders(payload) ==
    /\ \E k \in 1..Len(PayloadLines(payload)) : StartsWith(PayloadLines(payload)[k], S_old_prefix)
    /\ \E k \in 1..Len(PayloadLines(payload)) : StartsWith(PayloadLines(payload)[k], S_new_prefix)

\* The payload holds an '@@' line.
HasHunkMarker(payload) == AnyHunkLine(PayloadLines(payload))

\* C13: a payload is applied only if it holds the '--- '/'+++ ' file headers
\* and at least one '@@' hunk marker: a payload without the headers, or
\* without any hunk marker, is answered 400 and the file keeps its content.
MalformedPayloadRejected ==
    (loop.pc = "respond" /\ PatchReached(loop)
        /\ (~HasFileHeaders(loop.body) \/ ~HasHunkMarker(loop.body))) =>
        /\ loop.status = 400
        /\ files = loop.snap

\* The lines a unified diff expects to find in the file: for every context
\* line and every deleted line of a hunk its line number, counted from the
\* old start the hunk header states, and its text.
RECURSIVE OldSide(_, _, _)
OldSide(lines, pos, inhunk) ==
    IF lines = <<>> THEN <<>>
    ELSE IF HunkStart(Head(lines)).ok
         THEN OldSide(Tail(lines), HunkStart(Head(lines)).old, TRUE)
    ELSE IF inhunk /\ Head(lines) # <<>> /\ Head(lines)[1] \in {SP, "-"}
         THEN <<[n |-> pos, text |-> Tail(Head(lines))]>> \o OldSide(Tail(lines), pos + 1, TRUE)
    ELSE OldSide(Tail(lines), pos, inhunk)

\* Some context or deleted line of the payload is not the line of the text
\* at the line number the hunk states.
ContextMismatch(payload, text) ==
    \E k \in 1..Len(OldSide(SplitLines(Unescape(payload)), 0, FALSE)) :
        LET e == OldSide(SplitLines(Unescape(payload)), 0, FALSE)[k] IN
        \/ e.n < 1
        \/ e.n > Len(SplitLines(text))
        \/ SplitLines(text)[e.n] # e.text

\* C14: a unified diff with a context line or a deleted line that is not the
\* file's line at the line number its hunk states is answered 400 and nothing
\* is written; the hunk is not applied at that or any other place.
ContextMismatchRejected ==
    (loop.pc = "respond" /\ PatchReached(loop)
        /\ HasFileHeaders(loop.body) /\ HasHunkMarker(loop.body)
        /\ ContextMismatch(loop.body, loop.snap[loop.resolved])) =>
        /\ loop.status = 400
        /\ files = loop.snap

\* A successful patch request at its response.
PatchSucceeded == loop.pc = "respond" /\ loop.op = "patch" /\ loop.status = 200

EndsWithLF(text) == text # <<>> /\ text[Len(text)] = NL

EndsWithTwoLF(text) == Len(text) >= 2 /\ text[Len(text)] = NL /\ text[Len(text) - 1] = NL

\* The text has an empty line.
HasBlankLine(text) == \E k \in 1..Len(SplitLines(text)) : SplitLines(text)[k] = <<>>

\* The payload inserts an empty line: a '+' line (or, in a normal diff, a
\* '> ' line) with nothing after the marker.
InsertsBlankLine(payload) ==
    \E k \in 1..Len(SplitLines(Unescape(payload))) :
        SplitLines(Unescape(payload))[k] \in {<<"+">>, <<">", SP>>}

\* C15 as stated: the content written by a successful patch ends with exactly
\* one LF, whatever the file held and whatever the delta was.
PatchedEndsWithOneLF ==
    PatchSucceeded =>
        /\ EndsWithLF(files[loop.resolved])
        /\ ~EndsWithTwoLF(files[loop.resolved])

\* C15, amended: the content written by a successful patch ends with LF; it
\* ends with more than one LF only if its last line is a blank line, which
\* the file held before or the delta inserted.
PatchedEndsWithLF ==
    PatchSucceeded =>
        /\ EndsWithLF(files[loop.resolved])
        /\ EndsWithTwoLF(files[loop.resolved]) =>
              HasBlankLine(loop.snap[loop.resolved]) \/ InsertsBlankLine(loop.body)

PatchedEndsWithLFWitness ==
    /\ PatchSucceeded
    /\ loop.snap[loop.resolved] = NoEOL
    /\ files[loop.resolved] = C1Text

\* The 2-character tags of the tagged-line form: context, delete, insert, hint.
LineTags == {<<SP, SP>>, <<"-", SP>>, <<"+", SP>>, <<"?", SP>>}

\* Every line of the payload starts with one of the four tags.
AllTagged(payload) ==
    /\ payload # <<>>
    /\ \A k \in 1..Len(SplitLines(payload)) : Take(SplitLines(payload)[k], 2) \in LineTags

\* The reconstruction rule: context and insert lines emit their remainder,
\* terminated with LF; delete and hint lines emit nothing.
RECURSIVE Reconstruct(_)
Reconstruct(lines) ==
    IF lines = <<>> THEN <<>>
    ELSE IF Take(Head(lines), 2) \in {<<SP, SP>>, <<"+", SP>>}
         THEN From(Head(lines), 3) \o <<NL>> \o Reconstruct(Tail(lines))
    ELSE Reconstruct(Tail(lines))

\* C16: a payload of tagged lines is applied, and the file then holds the
\* remainders of its context and insert lines in order, each ended by LF; a
\* payload that is no unified diff and has a line with another tag is
\* answered 400.
TaggedLinesApplied ==
    (loop.pc = "respond" /\ PatchReached(loop)) =>
        /\ AllTagged(loop.body) =>
              /\ loop.status = 200
              /\ files[loop.resolved] = Reconstruct(SplitLines(loop.body))
        /\ (~AllTagged(loop.body) /\ ~HasFileHeaders(loop.body) /\ ~HasHunkMarker(loop.body)) =>
              /\ loop.status = 400
              /\ files = loop.snap

\* ------------------------------------------------------------------------
\* Properties of create, replace and trash.
\* ------------------------------------------------------------------------
\* The request on the event loop has its response and its path is inside the
\* vault.
Answered(op) == loop.pc = "respond" /\ loop.op = op /\ ResolveSafe(loop.path).ok

\* C17: create succeeds only where nothing existed and then the file holds
\* the given content; where something existed it is answered 400 and nothing
\* changes. Replace succeeds only where a file existed and then the file holds
\* the given content; where no file existed it is answered 404 and no file is
\* created.
CreateAndReplacePreconditions ==
    /\ (Answered("create") /\ loop.status = 200) =>
          /\ loop.resolved \notin DOMAIN loop.snap /\ loop.resolved \notin dirs
          /\ files[loop.resolved] = loop.body
    /\ (Answered("create") /\ (loop.resolved \in DOMAIN loop.snap \/ loop.resolved \in dirs)) =>
          /\ loop.status = 400
          /\ files = loop.snap
    /\ (Answered("update") /\ loop.status = 200) =>
          /\ loop.resolved \in DOMAIN loop.snap
          /\ files[loop.resolved] = loop.body
    /\ (Answered("update") /\ loop.resolved \notin DOMAIN loop.snap) =>
          /\ loop.status = 404
          /\ files = loop.snap

\* A replace that succeeds on a file an earlier create made.
CreateAndReplacePreconditionsWitness ==
    /\ Answered("update") /\ loop.status = 200
    /\ loop.resolved = VaultFile(P_n) /\ VaultFile(P_n) \in wrote
    /\ loop.snap[loop.resolved] = T1 /\ files[loop.resolved] = U1

\* C18: after a trash request succeeds no file is at its path and the file at
\* '.trash/<path>' holds the content the file had; a trash request for a path
\* that is no file is answered 404 and nothing changes.
TrashMovesFile ==
    /\ (Answered("trash") /\ loop.status = 200) =>
          /\ loop.resolved \in DOMAIN loop.snap
          /\ loop.resolved \notin DOMAIN files
          /\ TrashDest(loop.resolved) \in DOMAIN files
          /\ files[TrashDest(loop.resolved)] = loop.snap[loop.resolved]
    /\ (Answered("trash") /\ loop.resolved \notin DOMAIN loop.snap) =>
          /\ loop.status = 404
          /\ files = loop.snap

\* A file that was rewritten and then trashed.
TrashMovesFileWitness ==
    /\ Answered("trash") /\ loop.status = 200
    /\ loop.snap[loop.resolved] # T1
    /\ loop.resolved \notin DOMAIN files
    /\ files[TrashDest(loop.resolved)] = loop.snap[loop.resolved]

\* ------------------------------------------------------------------------
\* Properties of the patch request as a whole.
\* ------------------------------------------------------------------------
\* The file system calls a patch request may make, in their order: the
\* existence test, the read, the open of write_text, then its writes.
StepRank(kind) ==
    IF kind = "stat" THEN 1 ELSE IF kind = "read" THEN 2 ELSE IF kind = "open" THEN 3
    ELSE IF kind = "write" THEN 4 ELSE 0

StepsInOrder(log) ==
    \A k \in 1..Len(log) :
        /\ StepRank(log[k][1]) = Min2(k, 4)
        /\ log[k][2] = loop.resolved

\* The outcome the steps of patch_file give for a request, from the state of
\* the disk when the request started: the first failing step's error and the
\* number of file system calls made up to it.
PatchOutcome(r) ==
    LET rs == ResolveSafe(r.path)
        res == ApplyPatchText(r.path, r.snap[rs.resolved], r.body)
    IN  IF ~rs.ok THEN [status |-> 400, detail |-> "Invalid file path", calls |-> 0]
        ELSE IF rs.resolved \notin DOMAIN r.snap
             THEN [status |-> 404, detail |-> "File not found", calls |-> 1]
        ELSE IF r.body = <<>> THEN [status |-> 400, detail |-> "Empty diff", calls |-> 1]
        ELSE [status |-> res.status, detail |-> res.detail, calls |-> 2]

\* C19: a patch request makes its steps in the order sandbox check, existence
\* check, empty-diff check, read, parse and apply, write, respond; it stops at
\* the first failing step with that step's error; it opens its target for
\* writing at most once and only after the patch applied; it ends with one
\* outcome.
PatchStepsInOrder ==
    (loop.op = "patch") =>
        /\ StepsInOrder(loop.log)
        /\ Opened(loop) =>
              /\ PatchOutcome(loop).status = 200
              /\ loop.new_text = ApplyPatchText(loop.path, loop.snap[loop.resolved], loop.body).new_text
        /\ (loop.pc = "respond" /\ PatchOutcome(loop).status # 200) =>
              /\ loop.status = PatchOutcome(loop).status
              /\ loop.detail = PatchOutcome(loop).detail
              /\ Len(loop.log) = PatchOutcome(loop).calls
        /\ (loop.pc = "respond" /\ PatchOutcome(loop).status = 200) =>
              /\ loop.status \in {200, 500}
              /\ loop.status = 200 => Opened(loop) /\ files[loop.resolved] = loop.new_text
        /\ loop.pc = "respond" => loop.status \in {200, 400, 404, 500}

\* A request for a missing file with an empty diff has been answered, after a
\* request that wrote its file in more than one piece.
PatchStepsInOrderWitness ==
    /\ loop.op = "patch" /\ loop.pc = "respond"
    /\ loop.body = <<>> /\ loop.resolved = VaultFile(P_n)
    /\ loop.status = 404
    /\ VaultFile(P_a) \in wrote /\ files[VaultFile(P_a)] = T2

\* C20: when a patch request has its response, with any status, the files on
\* disk are the files that were there when it started, and every file but its
\* target holds the content it held then.
PatchTouchesOnlyTarget ==
    (loop.op = "patch" /\ loop.pc = "respond") =>
        /\ DOMAIN files = DOMAIN loop.snap
        /\ \A q \in DOMAIN files \ {loop.resolved} : files[q] = loop.snap[q]

\* A patch request has rewritten a.md while n.md, made by the request before
\* it, is on disk.
PatchTouchesOnlyTargetWitness ==
    /\ loop.op = "patch" /\ loop.pc = "respond" /\ loop.status = 200
    /\ loop.resolved = VaultFile(P_a)
    /\ files[loop.resolved] # loop.snap[loop.resolved]
    /\ VaultFile(P_n) \in DOMAIN files

\* ------------------------------------------------------------------------
\* Properties of the scheduling of handlers.
\* ------------------------------------------------------------------------
\* The handler on the event loop is between its first file system check and
\* the end of its write.
InFlight == loop.pc \in {"write", "writing"}

\* The event loop's record after a step is that of the same request, with
\* the file system calls it had made and possibly more.
SameRequest ==
    /\ loop'.op = loop.op /\ loop'.path = loop.path /\ loop'.body = loop.body
    /\ loop'.snap = loop.snap /\ loop'.resolved = loop.resolved
    /\ Len(loop'.log) >= Len(loop.log)
    /\ SubSeq(loop'.log, 1, Len(loop.log)) = loop.log

\* The step is one of a handler on a worker thread.
ThreadStep == reader' # reader /\ loop' = loop

====
